---- MODULE Spec2Model ----
(***************************************************************************)
(* Model of the Moustache Escapes property locator (src/main.py) and of    *)
(* the helper prototype (src/utils.py).                                    *)
(*                                                                         *)
(* Strings are sequences of one-character strings.  "Idot" stands for      *)
(* U+0130 (capital I with dot above), whose Python lower() is the two      *)
(* characters U+0069 U+0307, written "i" and "cdot" here.                  *)
(* Distances are integers in metres; a reported distance_km is an integer  *)
(* number of hundredths of a kilometre (round(x, 2) keeps two decimals).   *)
(***************************************************************************)
EXTENDS Integers, Sequences, FiniteSets, TLC

VARIABLES
    properties,   \* rows of the properties table, in rowid order
    raw,          \* "query" field of the request body as sent by the caller
    query,        \* request.query after PropertyRequest validation
    corrected,    \* result of suggest_correction(query)
    direct,       \* result of get_properties_by_city(corrected)
    coords,       \* result of the last geocode_with_nominatim call
    firstCoords,  \* result of geocode_with_nominatim(corrected)
    env,          \* what the corrector's two sources answered in this request
    pc,           \* position of the request in find_properties
    calls,        \* history: the steps and external calls made so far
    response,     \* what the endpoint answered
    now,          \* index into TimePoints: the value of time.time()
    request_log,  \* request_log[ip]: timestamps kept by the middleware
    passed,       \* history: passed[ip] = timestamps handed to call_next
    last,         \* history: the last request the middleware processed
    gImpl,        \* which geocoder is being exercised
    gPlan,        \* outcome of the geocoding service at each attempt
    gAttempts,    \* history: calls made to the geocoding service
    gSlept,       \* history: number of time.sleep(0.5) calls
    gResult,      \* value returned by the geocode call
    gPc,          \* position inside the geocode call
    origin,       \* coordinates handed to find_nearby_properties
    nearby,       \* value returned by find_nearby_properties
    seedPc,       \* seedPc[p]: position of process p in the module-level start-up code
    seedSeen,     \* seedSeen[p]: the COUNT(*) process p read
    seedStarts    \* history: seedStarts[p] = number of times process p was started

pipeVars == <<raw, query, corrected, direct, coords, firstCoords, env, pc, calls, response>>
rlVars   == <<now, request_log, passed, last>>
geoVars  == <<gImpl, gPlan, gAttempts, gSlept, gResult, gPc>>
nearVars == <<origin, nearby>>
seedVars == <<seedPc, seedSeen, seedStarts>>
vars     == <<properties, pipeVars, rlVars, geoVars, nearVars, seedVars>>

----------------------------------------------------------------------------
(* Configuration (class Config) and the request model's limits *)

MAX_DISTANCE_KM  == 50
REQUEST_LIMIT    == 10
WINDOW           == 60
MIN_LENGTH       == 2
MAX_LENGTH       == 50
SCORE_CUTOFF     == 70
RETRIES          == 3

(* Bounds of the model *)
MaxCatalog  == 2
MaxNearby   == 3
MaxRequests == 12
MaxStarts   == 3

\* Python's None where a coordinate pair or a string is expected
None == <<>>

----------------------------------------------------------------------------
(* Characters and strings *)

Digits     == {"1", "7"}
Spaces     == {" "}
Uppers     == {"A", "G", "P", "Idot"}
Lowers     == {"a", "g", "o", "p", "u", "n", "e", "x", "q", "i", "r"}
Marks      == {"cdot", "-"}

isdigit(c) == c \in Digits
isalpha(c) == c \in Uppers \cup Lowers
isspace(c) == c \in Spaces

\* str.lower() of one character
lowerChar(c) ==
    CASE c = "A"    -> <<"a">>
      [] c = "G"    -> <<"g">>
      [] c = "P"    -> <<"p">>
      [] c = "Idot" -> <<"i", "cdot">>
      [] OTHER      -> <<c>>

RECURSIVE lower(_)
lower(s) == IF s = <<>> THEN <<>> ELSE lowerChar(Head(s)) \o lower(Tail(s))

RECURSIVE lstrip(_)
lstrip(s) == IF s # <<>> /\ isspace(Head(s)) THEN lstrip(Tail(s)) ELSE s

RECURSIVE rstrip(_)
rstrip(s) ==
    IF s # <<>> /\ isspace(s[Len(s)]) THEN rstrip(SubSeq(s, 1, Len(s) - 1)) ELSE s

strip(s) == rstrip(lstrip(s))

anyDigit(s) == \E i \in 1..Len(s) : isdigit(s[i])
anyAlpha(s) == \E i \in 1..Len(s) : isalpha(s[i])

Rep(c, n) == [i \in 1..n |-> c]

----------------------------------------------------------------------------
(* PropertyRequest: constr(min_length, max_length, strip_whitespace) runs   *)
(* first (strip, then the length check), then validate_query.              *)

constr_ok(v) ==
    LET s == strip(v) IN Len(s) >= MIN_LENGTH /\ Len(s) <= MAX_LENGTH

validate_query_ok(v) == ~anyDigit(v)

validate_query(v) == lower(v)

PropertyRequestValid(r) == constr_ok(r) /\ validate_query_ok(strip(r))

PropertyRequestQuery(r) == validate_query(strip(r))

----------------------------------------------------------------------------
(* The properties table *)

Goa  == <<"g", "o", "a">>
Agra == <<"a", "g", "r", "a">>
Pune == <<"p", "u", "n", "e">>

Row(n, c, lat, lon) == [name |-> n, city |-> c, latitude |-> lat, longitude |-> lon]

\* sample_properties: the seed list
SeedRows ==
    << Row("Moustache Goa Luxuria", Goa, 0, 0), Row("Moustache Agra", Agra, 0, 200000) >>

\* variant: every connection seeds the table again
get_db_seeding(rows) == rows \o SeedRows

\* "with get_db() as conn": the table after a connection that only ran
\* SELECT statements and was closed without a commit
get_db(rows) == rows

\* SELECT DISTINCT city FROM properties (first occurrence of each city)
RECURSIVE distinct_cities(_)
distinct_cities(rows) ==
    IF rows = <<>> THEN <<>>
    ELSE LET init == distinct_cities(SubSeq(rows, 1, Len(rows) - 1))
             c    == rows[Len(rows)].city
         IN  IF \E i \in 1..Len(init) : init[i] = c THEN init ELSE Append(init, c)

\* SELECT name, latitude, longitude FROM properties WHERE city = ?
IsCity(r, city) == r.city = city

get_properties_by_city(rows, city) ==
    LET Match(r) == IsCity(r, city)
        hits     == SelectSeq(rows, Match)
    IN  [i \in 1..Len(hits) |->
            [property |-> hits[i].name, latitude |-> hits[i].latitude,
             longitude |-> hits[i].longitude]]

----------------------------------------------------------------------------
(* Spelling correction *)

\* rapidfuzz process.extractOne(query, choices, scorer, score_cutoff): the
\* first choice with the highest score among those scoring at least the
\* cutoff, or None.  sc[c] is the scorer's value for choice c.
\* variant: the first choice that reaches the cutoff, not the best one
RECURSIVE extractOne_first(_, _, _)
extractOne_first(choices, sc, cutoff) ==
    IF choices = <<>> THEN [found |-> FALSE, choice |-> <<>>, score |-> 0]
    ELSE LET c == Head(choices)
         IN  IF sc[c] >= cutoff
             THEN [found |-> TRUE, choice |-> c, score |-> sc[c]]
             ELSE extractOne_first(Tail(choices), sc, cutoff)

RECURSIVE extractOne(_, _, _)
extractOne(choices, sc, cutoff) ==
    IF choices = <<>> THEN [found |-> FALSE, choice |-> <<>>, score |-> 0]
    ELSE LET c    == Head(choices)
             rest == extractOne(Tail(choices), sc, cutoff)
         IN  IF sc[c] >= cutoff /\ (~rest.found \/ sc[c] >= rest.score)
             THEN [found |-> TRUE, choice |-> c, score |-> sc[c]]
             ELSE rest

\* What requests.get(SPELL_CHECK_URL) can produce:
\*   net    "ok" | "error" | "timeout"
\*   status the HTTP status code
\*   body   "notjson"  response.json() raises
\*          "short"    response.json()[1] raises (no index 1)
\*          "falsy"    response.json()[1] is [], "", 0, null or {}
\*          "opaque"   response.json()[1] is a non-empty object or a number
\*          "list"     response.json()[1] is a non-empty list
\*          "string"   response.json()[1] is a non-empty string
\*   top    type of element 0 of the list: "str" | "num" | "null"
\*   text   the string (element 0 of the list, or the string itself)
Resp(n, st, b, tp, tx) == [net |-> n, status |-> st, body |-> b, top |-> tp, text |-> tx]

NoResp == Resp("unused", 0, "none", "none", <<>>)

Str(s)   == [isstr |-> TRUE, s |-> s]
NotStr   == [isstr |-> FALSE, s |-> <<>>]

google_spell_suggest(q, r) ==
    IF r.net # "ok" THEN Str(q)
    ELSE IF r.status # 200 THEN Str(q)
    ELSE IF r.body \in {"notjson", "short", "opaque"} THEN Str(q)
    ELSE IF r.body = "falsy" THEN Str(q)
    ELSE IF r.body = "string" THEN Str(<<r.text[1]>>)
    ELSE IF r.top = "str" THEN Str(r.text)
    ELSE NotStr

\* variant: no score is high enough
Accepted_never(best) == best.found /\ best.score > 100

\* The vocabulary candidate is taken only with a score above the cutoff.
Accepted(best) == best.found /\ best.score > SCORE_CUTOFF

\* variant: the suggestion service is asked before the vocabulary decides
suggest_correction_eager(q, rows, sc, r) ==
    LET best == extractOne(distinct_cities(rows), sc, SCORE_CUTOFF)
        sug  == google_spell_suggest(q, r)
    IN  IF Accepted(best)
        THEN [raised |-> FALSE, asked |-> TRUE, value |-> best.choice]
        ELSE IF ~sug.isstr
        THEN [raised |-> TRUE, asked |-> TRUE, value |-> <<>>]
        ELSE IF lower(sug.s) # lower(q) /\ anyAlpha(sug.s)
        THEN [raised |-> FALSE, asked |-> TRUE, value |-> lower(sug.s)]
        ELSE [raised |-> FALSE, asked |-> TRUE, value |-> q]

\* suggest_correction: raised = an exception leaves the function,
\* asked = google_spell_suggest was called.
suggest_correction(q, rows, sc, r) ==
    LET best == extractOne(distinct_cities(rows), sc, SCORE_CUTOFF)
        sug  == google_spell_suggest(q, r)
    IN  IF Accepted(best)
        THEN [raised |-> FALSE, asked |-> FALSE, value |-> best.choice]
        ELSE IF ~sug.isstr
        THEN [raised |-> TRUE, asked |-> TRUE, value |-> <<>>]
        ELSE IF lower(sug.s) # lower(q) /\ anyAlpha(sug.s)
        THEN [raised |-> FALSE, asked |-> TRUE, value |-> lower(sug.s)]
        ELSE [raised |-> FALSE, asked |-> TRUE, value |-> q]

\* src/utils.py: the vocabulary is a fixed list with capitalised names
FUZZY_CUTOFF == 60

all_known_cities == << <<"G", "o", "a">>, <<"A", "g", "r", "a">>, <<"P", "u", "n", "e">> >>

\* fuzzy_match_location: the best choice scoring at least 60, or None
fuzzy_match_location(sc) ==
    LET result == extractOne(all_known_cities, sc, FUZZY_CUTOFF)
    IN  IF ~result.found THEN None ELSE result.choice

----------------------------------------------------------------------------
(* Geocoding *)

\* What one call of geolocator.geocode can do: raise (network error,
\* timeout), return None, or return a location.
GeoOut(k, at) == [kind |-> k, at |-> at]

\* geocode_with_nominatim (src/main.py): one call, exceptions swallowed
\* variant: a failed call yields a default position
geocode_with_nominatim_default(out) == IF out.kind = "found" THEN out.at ELSE <<0, 0>>

geocode_with_nominatim(out) == IF out.kind = "found" THEN out.at ELSE None

----------------------------------------------------------------------------
(* Proximity search *)

Abs(x) == IF x < 0 THEN -x ELSE x

\* geopy's geodesic(a, b) in metres: the library is external; coordinates
\* are points of a grid of metres and the distance is taken along the grid.
geodesic(a, b) == Abs(a[1] - b[1]) + Abs(a[2] - b[2])

\* round(distance_in_km, 2) as hundredths of a kilometre, from metres
round2(m) ==
    LET q == m \div 10
        r == m % 10
    IN  IF r < 5 THEN q
        ELSE IF r > 5 THEN q + 1
        ELSE IF q % 2 = 0 THEN q ELSE q + 1

\* variant: the radius filter is left out
WithinRadius_nofilter(d) == d >= 0

WithinRadius(d) == d <= MAX_DISTANCE_KM * 1000

\* the loop of find_nearby_properties: rows within the radius, in row order
RECURSIVE nearby_rows(_, _)
nearby_rows(o, rows) ==
    IF rows = <<>> THEN <<>>
    ELSE LET r == Head(rows)
             d == geodesic(o, <<r.latitude, r.longitude>>)
         IN  (IF WithinRadius(d)
              THEN <<[property |-> r.name, distance_km |-> round2(d)]>>
              ELSE <<>>) \o nearby_rows(o, Tail(rows))

\* sorted(list, key): Python's sort is stable; x goes after every element
\* whose key is not greater than its own.
\* variant: x goes before the elements with an equal key
InsertPos_unstable(s, x) ==
    IF \A i \in 1..Len(s) : s[i].distance_km < x.distance_km THEN Len(s)
    ELSE (CHOOSE i \in 1..Len(s) :
             /\ s[i].distance_km >= x.distance_km
             /\ \A j \in 1..(i - 1) : s[j].distance_km < x.distance_km) - 1

InsertPos(s, x) ==
    IF \A i \in 1..Len(s) : s[i].distance_km <= x.distance_km THEN Len(s)
    ELSE (CHOOSE i \in 1..Len(s) :
                 /\ s[i].distance_km > x.distance_km
                 /\ \A j \in 1..(i - 1) : s[j].distance_km <= x.distance_km) - 1

RECURSIVE sorted(_)
sorted(s) ==
    IF s = <<>> THEN <<>>
    ELSE LET init == sorted(SubSeq(s, 1, Len(s) - 1))
             x    == s[Len(s)]
             k    == InsertPos(init, x)
         IN  SubSeq(init, 1, k) \o <<x>> \o SubSeq(init, k + 1, Len(init))

find_nearby_properties(o, rows) == sorted(nearby_rows(o, rows))

----------------------------------------------------------------------------
(* Inputs of the request pipeline *)

\* Request bodies: city names, misspellings, unknown places, and strings at
\* the limits of the length check
RawQueries ==
    { Goa, <<" ", "G", "o", "a", " ">>, <<"g", "a", "o">>, Pune, <<"x", "q">>,
      <<"g", "o", "a", "7">>, <<"1", "7">>, <<>>, <<" ", " ", " ">>,
      <<"a">>, <<" ", "a", " ">>, <<"Idot">>, <<"a", "A">>,
      Rep("a", MAX_LENGTH), Rep("a", MAX_LENGTH + 1),
      <<" ">> \o Rep("A", MAX_LENGTH) \o <<" ">>,
      Rep("Idot", MAX_LENGTH), Rep("a", MAX_LENGTH - 1) \o <<"Idot">>,
      Rep("a", MAX_LENGTH - 1) \o <<"1">> }

PoolRows ==
    { Row("Moustache Goa Luxuria", Goa, 0, 0),
      Row("Moustache Goa", Goa, 0, 30000),
      Row("Moustache Agra", Agra, 0, 200000) }

RECURSIVE SeqsUpTo(_, _)
SeqsUpTo(S, n) ==
    IF n = 0 THEN {<<>>}
    ELSE LET shorter == SeqsUpTo(S, n - 1)
         IN  shorter \cup {Append(q, x) : q \in shorter, x \in S}

Catalogs == SeqsUpTo(PoolRows, MaxCatalog)

\* values of the scorer (fuzz.WRatio, 0..100) for a choice that differs
\* from the query; a choice equal to the query scores 100
Scores == {50, 70, 71, 95}

Cities == {r.city : r \in PoolRows}

ScoreTables(q) ==
    {sc \in [Cities -> Scores \cup {100}] : \A c \in Cities : (sc[c] = 100) <=> (c = q)}

SuggestResponses ==
    { Resp("error", 0, "none", "none", <<>>),
      Resp("timeout", 0, "none", "none", <<>>),
      Resp("ok", 503, "notjson", "none", <<>>),
      Resp("ok", 200, "notjson", "none", <<>>),
      Resp("ok", 200, "short", "none", <<>>),
      Resp("ok", 200, "falsy", "none", <<>>),
      Resp("ok", 200, "opaque", "none", <<>>),
      Resp("ok", 200, "string", "none", Pune),
      Resp("ok", 200, "list", "num", <<>>),
      Resp("ok", 200, "list", "null", <<>>),
      Resp("ok", 200, "list", "str", <<"1", "7">>),
      Resp("ok", 200, "list", "str", <<"G", "o", "a">>),
      Resp("ok", 200, "list", "str", <<"P", "u", "n", "e">>),
      Resp("ok", 200, "list", "str", Pune) }

GeoCoords == {<<0, 10000>>, <<0, 500000>>}

GeoOutcomes ==
    {GeoOut("exception", None), GeoOut("none", None)}
        \cup {GeoOut("found", c) : c \in GeoCoords}

----------------------------------------------------------------------------
(* The request pipeline: POST /find-properties *)

\* out: what the geocoding service did ("" for the other steps)
Call(op, arg, out) == [op |-> op, arg |-> arg, out |-> out]

NoResponse == [status |-> 0, branch |-> "none", query |-> <<>>,
               properties |-> <<>>, message |-> "None"]

\* ApiResponse(query, properties, message); branch names the return taken
ApiResponse(b, q, props, msg) ==
    [status |-> 200, branch |-> b, query |-> q, properties |-> props, message |-> msg]

ErrorResponse(st, b) ==
    [status |-> st, branch |-> b, query |-> <<>>, properties |-> <<>>, message |-> "None"]

DirectList(ps) == [i \in 1..Len(ps) |-> [property |-> ps[i].property, distance_km |-> 0]]

NearList(ps) ==
    [i \in 1..Len(ps) |-> [property |-> ps[i].property, distance_km |-> ps[i].distance_km]]

NoEnv == [best |-> [found |-> FALSE, choice |-> <<>>, score |-> 0], resp |-> NoResp]

PipeStart(r) ==
    /\ raw = r
    /\ query = <<>>
    /\ corrected = <<>>
    /\ direct = <<>>
    /\ coords = None
    /\ firstCoords = None
    /\ env = NoEnv
    /\ pc = "validate"
    /\ calls = <<>>
    /\ response = NoResponse

PipeIdle ==
    /\ raw = <<>>
    /\ query = <<>>
    /\ corrected = <<>>
    /\ direct = <<>>
    /\ coords = None
    /\ firstCoords = None
    /\ env = NoEnv
    /\ pc = "idle"
    /\ calls = <<>>
    /\ response = NoResponse

\* FastAPI builds PropertyRequest from the body; a validation error is
\* answered with 422 and find_properties is not entered.
Validate ==
    /\ pc = "validate"
    /\ IF PropertyRequestValid(raw)
       THEN /\ query' = PropertyRequestQuery(raw)
            /\ pc' = "correct"
            /\ UNCHANGED response
       ELSE /\ response' = ErrorResponse(422, "invalid")
            /\ pc' = "done"
            /\ UNCHANGED query
    /\ UNCHANGED <<properties, raw, corrected, direct, coords, firstCoords, env, calls>>
    /\ UNCHANGED <<rlVars, geoVars, nearVars, seedVars>>

\* Step 1: corrected = suggest_correction(query)
Correct ==
    /\ pc = "correct"
    /\ \E sc \in ScoreTables(query), r \in SuggestResponses :
          LET res  == suggest_correction(query, properties, sc, r)
              best == extractOne(distinct_cities(properties), sc, SCORE_CUTOFF)
          IN  /\ env' = [best |-> best, resp |-> IF res.asked THEN r ELSE NoResp]
              /\ calls' = calls \o <<Call("fuzzy", query, "")>>
                                \o (IF res.asked THEN <<Call("suggest", query, "")>> ELSE <<>>)
              /\ IF res.raised
                 THEN /\ response' = ErrorResponse(500, "exception")
                      /\ pc' = "done"
                      /\ UNCHANGED corrected
                 ELSE /\ corrected' = res.value
                      /\ pc' = "lookup"
                      /\ UNCHANGED response
    /\ properties' = get_db(properties)
    /\ UNCHANGED <<raw, query, direct, coords, firstCoords>>
    /\ UNCHANGED <<rlVars, geoVars, nearVars, seedVars>>

\* "if direct_properties:"
\* variant: the direct match does not end the request
DirectFound_never(d) == d # d

DirectFound(d) == d # <<>>

\* Step 2: direct_properties = get_properties_by_city(corrected)
Lookup ==
    /\ pc = "lookup"
    /\ direct' = get_properties_by_city(properties, corrected)
    /\ calls' = Append(calls, Call("lookup", corrected, ""))
    /\ IF DirectFound(direct')
       THEN /\ response' = ApiResponse("direct", query, DirectList(direct'), "None")
            /\ pc' = "done"
       ELSE /\ pc' = "geocode"
            /\ UNCHANGED response
    /\ properties' = get_db(properties)
    /\ UNCHANGED <<raw, query, corrected, coords, firstCoords, env>>
    /\ UNCHANGED <<rlVars, geoVars, nearVars, seedVars>>

\* Step 3: coords = geocode_with_nominatim(corrected)
\* variant: the raw query is tried whenever the first call gave nothing
NeedsRaw_always(c, corr, q) == c = None

NeedsRaw(c, corr, q) == c = None /\ corr # q

GeocodeCorrected ==
    /\ pc = "geocode"
    /\ \E out \in GeoOutcomes :
          /\ coords' = geocode_with_nominatim(out)
          /\ firstCoords' = coords'
          /\ calls' = Append(calls, Call("geocode", corrected, out.kind))
          /\ pc' = IF NeedsRaw(coords', corrected, query) THEN "geocode_raw" ELSE "respond"
    /\ UNCHANGED <<properties, raw, query, corrected, direct, env, response>>
    /\ UNCHANGED <<rlVars, geoVars, nearVars, seedVars>>

\* coords = geocode_with_nominatim(query)
GeocodeRaw ==
    /\ pc = "geocode_raw"
    /\ \E out \in GeoOutcomes :
          /\ coords' = geocode_with_nominatim(out)
          /\ calls' = Append(calls, Call("geocode", query, out.kind))
          /\ pc' = "respond"
    /\ UNCHANGED <<properties, raw, query, corrected, direct, firstCoords, env, response>>
    /\ UNCHANGED <<rlVars, geoVars, nearVars, seedVars>>

\* "if not coords:"
NoCoords(c) == c = None

\* variant: the answer names the corrected location
NotFoundResponse_corrected(q, corr) ==
    ApiResponse("not_found", corr, <<>>, "Could not determine location")

\* the answer given when no coordinates were found
NotFoundResponse(q, corr) ==
    ApiResponse("not_found", q, <<>>, "Could not determine location")

\* variant: the message is left out
NoMatchMessage_never(ps) == "None"

\* message="No properties found" if not properties else None
NoMatchMessage(ps) == IF ps = <<>> THEN "No properties found" ELSE "None"

\* the rest of find_properties
Respond ==
    /\ pc = "respond"
    /\ IF NoCoords(coords)
       THEN /\ response' = NotFoundResponse(query, corrected)
            /\ UNCHANGED <<calls, properties>>
       ELSE LET ps == find_nearby_properties(coords, properties)
            IN  /\ response' = ApiResponse("nearby", query, NearList(ps), NoMatchMessage(ps))
                /\ calls' = Append(calls, Call("nearby", corrected, ""))
                /\ properties' = get_db(properties)
    /\ pc' = "done"
    /\ UNCHANGED <<raw, query, corrected, direct, coords, firstCoords, env>>
    /\ UNCHANGED <<rlVars, geoVars, nearVars, seedVars>>

\* the next request arrives; the table is what the previous one left
NextRequest ==
    /\ pc = "done"
    /\ raw' \in RawQueries
    /\ query' = <<>>
    /\ corrected' = <<>>
    /\ direct' = <<>>
    /\ coords' = None
    /\ firstCoords' = None
    /\ env' = NoEnv
    /\ pc' = "validate"
    /\ calls' = <<>>
    /\ response' = NoResponse
    /\ UNCHANGED properties
    /\ UNCHANGED <<rlVars, geoVars, nearVars, seedVars>>

----------------------------------------------------------------------------
(* The rate limiting middleware *)

IPs == {"10.0.0.1", "10.0.0.2"}

\* the instants at which time.time() is read, in seconds
TimePoints == <<0, 59, 60, 61>>

Now == TimePoints[now]

\* variant: a timestamp exactly WINDOW seconds old is kept
InWindow_inclusive(t, cur) == cur - t <= WINDOW

InWindow(t, cur) == cur - t < WINDOW

\* variant: off by one in the limit test
OverLimit_offbyone(n) == n > REQUEST_LIMIT

OverLimit(n) == n >= REQUEST_LIMIT

\* request_log[ip] = [t for t in request_log[ip] if current_time - t < 60]
Prune(log, cur) == LET Keep(t) == InWindow(t, cur) IN SelectSeq(log, Keep)

\* number of timestamps of h less than WINDOW seconds before cur
Recent(h, cur) == Cardinality({i \in 1..Len(h) : h[i] <= cur /\ cur - h[i] < WINDOW})

NoLast == [n |-> 0, ip |-> "none", time |-> 0, status |-> 0, forwarded |-> FALSE, before |-> 0]

RLIdle ==
    /\ now = 1
    /\ request_log = [ip \in IPs |-> <<>>]
    /\ passed = [ip \in IPs |-> <<>>]
    /\ last = NoLast

\* variant: the timestamp is recorded before the limit is tested
rate_limit_middleware_record(ip) ==
    LET kept == Prune(request_log[ip], Now)
        seen == [n |-> last.n + 1, ip |-> ip, time |-> Now, status |-> 0,
                 forwarded |-> FALSE, before |-> Recent(passed[ip], Now)]
    IN  /\ last.n < MaxRequests
        /\ request_log' = [request_log EXCEPT ![ip] = Append(kept, Now)]
        /\ IF OverLimit(Len(kept))
           THEN /\ last' = [seen EXCEPT !.status = 429]
                /\ UNCHANGED passed
           ELSE /\ passed' = [passed EXCEPT ![ip] = Append(@, Now)]
                /\ last' = [seen EXCEPT !.status = 200, !.forwarded = TRUE]
        /\ UNCHANGED <<now, properties, pipeVars, geoVars, nearVars, seedVars>>

\* rate_limit_middleware, up to and including the call of call_next
rate_limit_middleware(ip) ==
    LET kept == Prune(request_log[ip], Now)
        seen == [n |-> last.n + 1, ip |-> ip, time |-> Now, status |-> 0,
                 forwarded |-> FALSE, before |-> Recent(passed[ip], Now)]
    IN  /\ last.n < MaxRequests
        /\ IF OverLimit(Len(kept))
           THEN /\ request_log' = [request_log EXCEPT ![ip] = kept]
                /\ last' = [seen EXCEPT !.status = 429]
                /\ UNCHANGED passed
           ELSE /\ request_log' = [request_log EXCEPT ![ip] = Append(kept, Now)]
                /\ passed' = [passed EXCEPT ![ip] = Append(@, Now)]
                /\ last' = [seen EXCEPT !.status = 200, !.forwarded = TRUE]
        /\ UNCHANGED <<now, properties, pipeVars, geoVars, nearVars, seedVars>>

Request == \E ip \in IPs : rate_limit_middleware(ip)

\* time passes
Tick ==
    /\ now < Len(TimePoints)
    /\ now' = now + 1
    /\ UNCHANGED <<request_log, passed, last, properties, pipeVars, geoVars, nearVars, seedVars>>

----------------------------------------------------------------------------
(* One geocode call: geocode_with_nominatim (src/main.py) and             *)
(* get_coordinates (src/utils.py) against the same service behaviour.     *)

GeoImpls == {"main", "utils"}

GeoPlans == [1..RETRIES -> GeoOutcomes]

GeoIdle ==
    /\ gImpl = "none"
    /\ gPlan = <<>>
    /\ gAttempts = 0
    /\ gSlept = 0
    /\ gResult = None
    /\ gPc = "idle"

\* geocode_with_nominatim: a single call of geolocator.geocode
GeocodeMain ==
    /\ gPc = "call"
    /\ gImpl = "main"
    /\ gAttempts' = gAttempts + 1
    /\ gResult' = geocode_with_nominatim(gPlan[gAttempts + 1])
    /\ gPc' = "returned"
    /\ UNCHANGED <<gImpl, gPlan, gSlept, properties, pipeVars, rlVars, nearVars, seedVars>>

\* get_coordinates: one iteration of "for _ in range(3)"; the function
\* returns None when the last iteration has not returned
MoreAttempts(n) == n < RETRIES

GetCoordinatesAttempt ==
    /\ gPc = "call"
    /\ gImpl = "utils"
    /\ LET out == gPlan[gAttempts + 1]
       IN  /\ gAttempts' = gAttempts + 1
           /\ gSlept' = IF out.kind = "exception" THEN gSlept + 1 ELSE gSlept
           /\ IF out.kind = "found"
              THEN gResult' = out.at /\ gPc' = "returned"
              ELSE /\ gResult' = None
                   /\ gPc' = IF MoreAttempts(gAttempts') THEN "call" ELSE "returned"
    /\ UNCHANGED <<gImpl, gPlan, properties, pipeVars, rlVars, nearVars, seedVars>>

----------------------------------------------------------------------------
(* find_nearby_properties on its own *)

NearPool ==
    { Row("N1", Goa, 0, 10001), Row("N2", Goa, 0, 10004), Row("N3", Agra, 0, 49996),
      Row("N4", Agra, 50000, 0), Row("N5", Pune, 0, 50004), Row("N6", Pune, 0, 50006),
      Row("N7", Pune, 0, 0) }

NearOrigins == {<<0, 0>>, <<0, 20000>>}

NearIdle ==
    /\ origin = None
    /\ nearby = [done |-> FALSE, list |-> <<>>]

Search ==
    /\ ~nearby.done
    /\ origin # None
    /\ nearby' = [done |-> TRUE, list |-> find_nearby_properties(origin, properties)]
    /\ UNCHANGED <<origin, properties, pipeVars, rlVars, geoVars, seedVars>>

----------------------------------------------------------------------------
(* Process start: init_db() and the seeding block at module level.  Each    *)
(* process opens its own connection to the same database file; the SELECT  *)
(* and the INSERT with its commit are separate statements.                 *)

Procs == {"p1", "p2"}

SeedIdle ==
    /\ seedPc = [p \in Procs |-> "off"]
    /\ seedSeen = [p \in Procs |-> 0]
    /\ seedStarts = [p \in Procs |-> 0]

\* the process is started: init_db() creates the table if it is missing
\* and leaves its rows alone
Start(p) ==
    /\ seedPc[p] \in {"off", "up"}
    /\ seedStarts[p] < MaxStarts
    /\ seedPc' = [seedPc EXCEPT ![p] = "count"]
    /\ seedStarts' = [seedStarts EXCEPT ![p] = @ + 1]
    /\ UNCHANGED <<seedSeen, properties, pipeVars, rlVars, geoVars, nearVars>>

\* cursor.execute("SELECT COUNT(*) FROM properties"); cursor.fetchone()[0]
SeedCount(p) ==
    /\ seedPc[p] = "count"
    /\ seedSeen' = [seedSeen EXCEPT ![p] = Len(properties)]
    /\ seedPc' = [seedPc EXCEPT ![p] = "insert"]
    /\ UNCHANGED <<seedStarts, properties, pipeVars, rlVars, geoVars, nearVars>>

\* "if ... == 0:"
SeenEmpty(n) == n = 0

\* cursor.executemany("INSERT ...", sample_properties); conn.commit()
SeedInsert(p) ==
    /\ seedPc[p] = "insert"
    /\ properties' = IF SeenEmpty(seedSeen[p]) THEN properties \o SeedRows ELSE properties
    /\ seedPc' = [seedPc EXCEPT ![p] = "up"]
    /\ UNCHANGED <<seedSeen, seedStarts, pipeVars, rlVars, geoVars, nearVars>>

----------------------------------------------------------------------------
(* Specifications *)

\* the request pipeline
Init ==
    /\ SeedIdle
    /\ properties \in Catalogs
    /\ \E r \in RawQueries : PipeStart(r)
    /\ RLIdle
    /\ GeoIdle
    /\ NearIdle

Next ==
    \/ Validate
    \/ Correct
    \/ Lookup
    \/ GeocodeCorrected
    \/ GeocodeRaw
    \/ Respond
    \/ NextRequest

Spec == Init /\ [][Next]_vars

\* the middleware
InitRL ==
    /\ SeedIdle
    /\ properties = <<>>
    /\ PipeIdle
    /\ RLIdle
    /\ GeoIdle
    /\ NearIdle

NextRL == Request \/ Tick

SpecRL == InitRL /\ [][NextRL]_vars

\* one geocode call
InitGeo ==
    /\ SeedIdle
    /\ properties = <<>>
    /\ PipeIdle
    /\ RLIdle
    /\ NearIdle
    /\ gImpl \in GeoImpls
    /\ gPlan \in GeoPlans
    /\ gAttempts = 0
    /\ gSlept = 0
    /\ gResult = None
    /\ gPc = "call"

NextGeo == GeocodeMain \/ GetCoordinatesAttempt

SpecGeo == InitGeo /\ [][NextGeo]_vars

\* the proximity search
InitNear ==
    /\ SeedIdle
    /\ properties \in SeqsUpTo(NearPool, MaxNearby)
    /\ PipeIdle
    /\ RLIdle
    /\ GeoIdle
    /\ origin \in NearOrigins
    /\ nearby = [done |-> FALSE, list |-> <<>>]

NextNear == Search

SpecNear == InitNear /\ [][NextNear]_vars

\* process starts against one database file, empty at first
InitSeed ==
    /\ properties = <<>>
    /\ PipeIdle
    /\ RLIdle
    /\ GeoIdle
    /\ NearIdle
    /\ SeedIdle

NextSeed == \E p \in Procs : Start(p) \/ SeedCount(p) \/ SeedInsert(p)

SpecSeed == InitSeed /\ [][NextSeed]_vars

----------------------------------------------------------------------------
(* Properties *)

IsGeocode(c) == c.op = "geocode"

GeocodeCalls == SelectSeq(calls, IsGeocode)

Ops == {calls[i].op : i \in 1..Len(calls)}

\* C1: when the direct lookup for the corrected location returns at least
\* one property, the request ends with the direct-match answer (one entry
\* per property found) and no geocode call is made in that request.
C1_DirectMatchSkipsGeocoder ==
    direct # <<>> =>
        /\ pc = "done"
        /\ response.status = 200
        /\ response.branch = "direct"
        /\ Len(response.properties) = Len(direct)
        /\ GeocodeCalls = <<>>
        /\ "nearby" \notin Ops

C1_Witness ==
    /\ pc = "done"
    /\ Len(direct) = 2
    /\ corrected # query
    /\ response.branch = "direct"

\* C2: for every caller, any window of less than 60 seconds ending at the
\* current time or at one of the caller's forwarded requests holds at most
\* REQUEST_LIMIT forwarded requests; and a request that finds REQUEST_LIMIT
\* forwarded requests of its caller in the last 60 seconds is answered 429
\* and is not handed to call_next.
C2_RateLimit ==
    /\ [](\A ip \in IPs :
            /\ Recent(passed[ip], Now) <= REQUEST_LIMIT
            /\ \A i \in 1..Len(passed[ip]) :
                  Recent(passed[ip], passed[ip][i]) <= REQUEST_LIMIT)
    /\ [][(last'.n # last.n /\ last'.before >= REQUEST_LIMIT)
             => (last'.status = 429 /\ passed' = passed)]_vars

C2_Witness ==
    /\ last.status = 429
    /\ last.before = REQUEST_LIMIT
    /\ Now > 0
    /\ Len(passed[last.ip]) = REQUEST_LIMIT

\* C3 (as claimed): a request whose trimmed, lowercased query contains a
\* digit, has fewer than 2 characters or more than 50 characters is
\* rejected and no step of the pipeline runs for it.
Normalized(r) == lower(strip(r))

C3_Claim ==
    (/\ pc \notin {"idle", "validate"}
     /\ \/ anyDigit(Normalized(raw))
        \/ Len(Normalized(raw)) < MIN_LENGTH
        \/ Len(Normalized(raw)) > MAX_LENGTH)
        => (response.branch = "invalid" /\ calls = <<>>)

\* C4 (as claimed): when no vocabulary candidate is above the cutoff and
\* the external suggestion is not accepted, the request ends as
\* Unrecognized and neither the direct lookup, nor geocoding, nor the
\* proximity search is performed.
SuggestionNotAccepted ==
    LET sug == google_spell_suggest(query, env.resp)
    IN  /\ env.resp # NoResp
        /\ sug.isstr
        /\ (lower(sug.s) = lower(query) \/ ~anyAlpha(sug.s))

C4_Claim ==
    (/\ pc \notin {"idle", "validate", "correct"}
     /\ response.status # 422
     /\ ~Accepted(env.best)
     /\ SuggestionNotAccepted)
        => /\ Ops \cap {"lookup", "geocode", "nearby"} = {}
           /\ pc = "done" => response.branch = "unrecognized"

\* C5 (as claimed): a geocode call makes at most 3 attempts, returns the
\* coordinates of the first attempt that does not raise when that attempt
\* finds the place (also after failed attempts), and returns None when all
\* 3 attempts raise.
FirstAnswer == {i \in 1..RETRIES : gPlan[i].kind # "exception"
                                     /\ \A j \in 1..(i - 1) : gPlan[j].kind = "exception"}

C5_Claim ==
    gPc = "returned" =>
        /\ gAttempts <= RETRIES
        /\ \A i \in FirstAnswer : gPlan[i].kind = "found" => gResult = gPlan[i].at
        /\ FirstAnswer = {} => gResult = None

\* C6: when the corrected location has no direct match and every geocode
\* call of the request raises, the request ends with the answer 200,
\* an empty property list and the message "Could not determine location".
AllGeocodeCallsRaised ==
    /\ GeocodeCalls # <<>>
    /\ \A i \in 1..Len(GeocodeCalls) : GeocodeCalls[i].out = "exception"

C6_GeocoderDownIsNotFound ==
    AllGeocodeCallsRaised =>
        /\ response.status # 500
        /\ pc = "done" =>
              /\ response.status = 200
              /\ response.branch = "not_found"
              /\ response.properties = <<>>
              /\ response.message = "Could not determine location"
              /\ "nearby" \notin Ops

C6_Witness ==
    /\ pc = "done"
    /\ Len(GeocodeCalls) = 2
    /\ AllGeocodeCallsRaised
    /\ response.branch = "not_found"

\* C7 (as claimed): whatever way the suggestion service fails (network
\* error, timeout, status other than 200, body that is not the expected
\* JSON, top suggestion that is not a string), the corrector returns the
\* query unchanged and the request does not fail.
SuggestFailure(r) ==
    \/ r.net \in {"error", "timeout"}
    \/ r.net = "ok" /\ r.status # 200
    \/ r.net = "ok" /\ r.status = 200 /\ r.body \in {"notjson", "short", "opaque"}
    \/ r.net = "ok" /\ r.status = 200 /\ r.body = "list" /\ r.top # "str"

C7_Claim ==
    (pc \notin {"idle", "validate", "correct"} /\ SuggestFailure(env.resp))
        => (response.status # 500 /\ corrected = query)

\* C8: every pair returned by the proximity search has a reported distance
\* of at most MAX_DISTANCE_KM, and belongs to a row whose distance from the
\* origin is at most MAX_DISTANCE_KM.
RowDistance(r) == geodesic(origin, <<r.latitude, r.longitude>>)

C8_WithinRadius ==
    nearby.done =>
        \A i \in 1..Len(nearby.list) :
            /\ nearby.list[i].distance_km <= MAX_DISTANCE_KM * 100
            /\ \E k \in 1..Len(properties) :
                  /\ properties[k].name = nearby.list[i].property
                  /\ RowDistance(properties[k]) <= MAX_DISTANCE_KM * 1000

C8_Witness ==
    /\ nearby.done
    /\ Len(nearby.list) > 0
    /\ Len(nearby.list) < Len(properties)
    /\ \E i \in 1..Len(nearby.list) : nearby.list[i].distance_km = MAX_DISTANCE_KM * 100

\* C9: the proximity search returns the rows within the radius ordered by
\* ascending reported distance, rows with the same reported distance in
\* the order of the table.
C9_SortedStable ==
    nearby.done =>
        LET n == Len(nearby.list)
        IN  /\ \A i \in 1..(n - 1) :
                  nearby.list[i].distance_km <= nearby.list[i + 1].distance_km
            /\ \E f \in [1..n -> 1..Len(properties)] :
                  /\ \A i \in 1..n :
                        /\ properties[f[i]].name = nearby.list[i].property
                        /\ round2(RowDistance(properties[f[i]])) = nearby.list[i].distance_km
                  /\ \A i, j \in 1..n :
                        (i < j /\ nearby.list[i].distance_km = nearby.list[j].distance_km)
                            => f[i] < f[j]

C9_Witness ==
    /\ nearby.done
    /\ Len(nearby.list) = 3
    /\ nearby.list[1].distance_km = nearby.list[2].distance_km
    /\ nearby.list[1].property # nearby.list[2].property
    /\ nearby.list[2].distance_km < nearby.list[3].distance_km
    /\ nearby.list[3].property = properties[1].name

\* C10: the corrected name is geocoded first; the raw query is geocoded
\* exactly when that call gave no coordinates and the corrected name differs
\* from the query; there are at most two geocode calls; and the
\* not-found answer is given only after every call made has failed.
C10_RawFallback ==
    LET g == GeocodeCalls
    IN  /\ Len(g) <= 2
        /\ Len(g) >= 1 => g[1].arg = corrected
        /\ Len(g) = 2 => g[2].arg = query
        /\ (pc \in {"respond", "done"} /\ Len(g) >= 1) =>
              (Len(g) = 2 <=> (g[1].out # "found" /\ corrected # query))
        /\ response.branch = "not_found" =>
              /\ Len(g) >= 1
              /\ \A i \in 1..Len(g) : g[i].out # "found"
              /\ coords = None

C10_Witness ==
    /\ pc = "done"
    /\ Len(GeocodeCalls) = 2
    /\ GeocodeCalls[1].out = "none"
    /\ GeocodeCalls[2].out = "found"
    /\ response.branch = "nearby"

\* C11: a request whose query is the city of a row of the table ends with
\* the direct-match answer, which lists every row of that city, each with
\* distance 0.0, and nothing else.
RowsOfCity(c) == {k \in 1..Len(properties) : properties[k].city = c}

C11_OwnCityRoundTrip ==
    (pc = "done" /\ RowsOfCity(raw) # {}) =>
        /\ response.status = 200
        /\ response.branch = "direct"
        /\ Len(response.properties) = Cardinality(RowsOfCity(raw))
        /\ \A k \in RowsOfCity(raw) :
              \E i \in 1..Len(response.properties) :
                  /\ response.properties[i].property = properties[k].name
                  /\ response.properties[i].distance_km = 0
        /\ \A i \in 1..Len(response.properties) : response.properties[i].distance_km = 0

C11_Witness ==
    /\ pc = "done"
    /\ Cardinality(RowsOfCity(raw)) = 2
    /\ Len(properties) = 2
    /\ properties[1].name # properties[2].name
    /\ Len(response.properties) = 2

\* C12: for a query that is one of the vocabulary's city names the
\* corrector returns that name, and correcting the result again returns it
\* again, whatever the scorer gives the other names and whatever the
\* suggestion service would answer; fuzzy_match_location does the same on
\* its own vocabulary.
InVocabulary(q) == \E i \in 1..Len(distinct_cities(properties)) : distinct_cities(properties)[i] = q

FuzzyTables(q) ==
    {sc \in [{all_known_cities[i] : i \in 1..Len(all_known_cities)} -> Scores \cup {100}] :
        \A i \in 1..Len(all_known_cities) : (sc[all_known_cities[i]] = 100) <=> (all_known_cities[i] = q)}

C12_KnownCityUnchanged ==
    (pc = "lookup" /\ InVocabulary(query)) =>
        /\ corrected = query
        /\ \A sc \in ScoreTables(corrected), r \in SuggestResponses :
              LET again == suggest_correction(corrected, properties, sc, r)
              IN  ~again.raised /\ again.value = corrected
        /\ \A i \in 1..Len(all_known_cities) :
              \A sc \in FuzzyTables(all_known_cities[i]) :
                  fuzzy_match_location(sc) = all_known_cities[i]

C12_Witness ==
    /\ pc = "lookup"
    /\ InVocabulary(query)
    /\ Len(distinct_cities(properties)) = 2
    /\ distinct_cities(properties)[2] = query
    /\ raw # query

\* C13: the suggestion service is called exactly when the vocabulary gave
\* no candidate with a score above the cutoff, and after the vocabulary
\* was scored.
C13_VocabularyFirst ==
    (pc \notin {"idle", "validate", "correct"} /\ response.status # 422) =>
        /\ ("suggest" \in Ops) <=> ~(env.best.found /\ env.best.score > SCORE_CUTOFF)
        /\ (env.best.found /\ env.best.score > SCORE_CUTOFF) => corrected = env.best.choice
        /\ \A i \in 1..Len(calls) :
              calls[i].op = "suggest" => (i > 1 /\ calls[i - 1].op = "fuzzy")

C13_Witness ==
    /\ pc = "lookup"
    /\ env.best.found
    /\ env.best.score > SCORE_CUTOFF
    /\ corrected # query
    /\ "suggest" \notin Ops

\* C14 (as claimed): the not-found answer carries the corrected location
\* name, also when it differs from the query.
C14_Claim ==
    response.branch = "not_found" => response.query = corrected

\* C14 (amended): the not-found answer carries the validated query, an
\* empty list and the message; the corrected name is in it only when it
\* equals the query.
C14_NotFoundCarriesQuery ==
    response.branch = "not_found" =>
        /\ response.query = query
        /\ response.properties = <<>>
        /\ response.message = "Could not determine location"
        /\ (response.query = corrected) <=> (corrected = query)

C14_Witness ==
    /\ response.branch = "not_found"
    /\ corrected # query
    /\ Len(GeocodeCalls) = 2

\* C15: when the request reaches the proximity search, the answer is an
\* empty list with the message "No properties found" exactly when no row
\* lies within the radius of the coordinates found; otherwise it is the
\* list of the rows within the radius, ascending by distance, without a
\* message.
RowsWithin(c) ==
    {k \in 1..Len(properties) :
        geodesic(c, <<properties[k].latitude, properties[k].longitude>>)
            <= MAX_DISTANCE_KM * 1000}

C15_NoMatchIffNothingNear ==
    response.branch = "nearby" =>
        /\ response.status = 200
        /\ coords # None
        /\ direct = <<>>
        /\ (response.properties = <<>>) <=> (RowsWithin(coords) = {})
        /\ (response.message = "No properties found") <=> (RowsWithin(coords) = {})
        /\ response.message \in {"No properties found", "None"}
        /\ Len(response.properties) = Cardinality(RowsWithin(coords))
        /\ \A i \in 1..(Len(response.properties) - 1) :
              response.properties[i].distance_km <= response.properties[i + 1].distance_km

C15_Witness ==
    /\ response.branch = "nearby"
    /\ properties # <<>>
    /\ response.properties = <<>>
    /\ response.message = "No properties found"

\* C16: no step of a request changes the properties table.
C16_CatalogReadOnly == [][properties' = properties]_vars

C16_Witness ==
    /\ pc = "done"
    /\ Len(properties) = 2
    /\ response.branch = "nearby"
    /\ {"fuzzy", "lookup", "nearby"} \subseteq Ops

\* C17 (as claimed): once a process has started and no process is in the
\* middle of its start, the table holds exactly one copy of each seed row.
NoStartInProgress == \A p \in Procs : seedPc[p] \in {"off", "up"}

C17_Claim ==
    (NoStartInProgress /\ \E p \in Procs : seedPc[p] = "up") => properties = SeedRows

\* C18: every caller's entry of request_log holds at most REQUEST_LIMIT
\* timestamps, and once the middleware has processed a request of a caller,
\* every timestamp of that caller's entry is less than 60 seconds older
\* than that request.
C18_LogBounded ==
    /\ \A ip \in IPs : Len(request_log[ip]) <= REQUEST_LIMIT
    /\ last.n > 0 =>
          \A i \in 1..Len(request_log[last.ip]) :
              /\ request_log[last.ip][i] <= last.time
              /\ last.time - request_log[last.ip][i] < WINDOW

C18_Witness ==
    /\ last.n > 0
    /\ last.status = 200
    /\ Len(request_log[last.ip]) < Len(passed[last.ip])
    /\ Len(passed[last.ip]) > REQUEST_LIMIT

\* C19: a request answered 429 adds no timestamp to its caller's entry
\* (the entry is what pruning leaves of it) and is not forwarded; no
\* request changes another caller's entry; and a request is answered 429
\* only when its own caller has REQUEST_LIMIT forwarded requests in the
\* last 60 seconds.
C19_RejectedNotRecorded ==
    [][last'.n # last.n =>
          /\ \A ip \in IPs \ {last'.ip} :
                request_log'[ip] = request_log[ip] /\ passed'[ip] = passed[ip]
          /\ last'.status = 429 =>
                /\ Len(request_log'[last'.ip]) <= Len(request_log[last'.ip])
                /\ \A i \in 1..Len(request_log'[last'.ip]) :
                      \E j \in 1..Len(request_log[last'.ip]) :
                          request_log'[last'.ip][i] = request_log[last'.ip][j]
                /\ passed' = passed
                /\ last'.before >= REQUEST_LIMIT]_vars

C19_Witness ==
    /\ last.status = 200
    /\ last.before = 0
    /\ \E ip \in IPs \ {last.ip} :
          /\ Len(passed[ip]) = REQUEST_LIMIT
          /\ Len(request_log[ip]) = REQUEST_LIMIT
          /\ last.time - request_log[ip][1] < WINDOW
    /\ last.n = REQUEST_LIMIT + 2

====
